---------------------------- MODULE Spec2Model ----------------------------
(***************************************************************************)
(* Complex vector / matrix notebook                                        *)
(* (TallerEsp.Vect-Hermitian-Unitary-Tensor-Circuits.ipynb).               *)
(*                                                                         *)
(* The notebook cells build NumPy arrays from literals and call NumPy on   *)
(* them.  The state is the notebook namespace: the operand arrays, the     *)
(* result of the last call, and the exception it raised, if any.  Every    *)
(* NumPy call used by a cell is an operator below, every cell an action.   *)
(*                                                                         *)
(* Numbers.  Every literal of the notebook lies in the ring                *)
(* Z[1/2][sqrt 2][i]; a scalar is the tuple <<a, b, c, d, k>> standing for *)
(*      ((a + b*sqrt2) + (c + d*sqrt2)*i) / 2^k                            *)
(* kept in lowest terms, so that equal numbers are equal tuples.           *)
(* Arithmetic is exact: IEEE-754 rounding is not modelled.  Signed zeros   *)
(* (NumPy prints -0.) compare equal to 0 in NumPy and are one value here.  *)
(***************************************************************************)
EXTENDS Integers, Sequences, FiniteSets, TLC

VARIABLES
    lit,        \* the list literal handed to np.array
    A, B, C,    \* the operand arrays a cell defines
    s,          \* the scalar a cell defines
    op,         \* the call made last ("start": none yet)
    out,        \* the array the last successful call was assigned to
    ans,        \* is_hermitian / is_unitary: "True", "False", or "unset"
    eig,        \* eigenvalues: the result of eigvals, None, or not bound yet
    err         \* the exception the last call raised, or "none"

vars == <<lit, A, B, C, s, op, out, ans, eig, err>>

-----------------------------------------------------------------------------
(* Bounds of the explored inputs.                                          *)

\* largest number of entries of the operand of the predicate cells
MaxPredCells == 6
\* largest total number of entries of the two operands of a binary call
MaxPairCells == 6
\* largest total number of entries of three operands
MaxTripleCells == 6
\* largest number of entries of the operands of the operation cells
MaxOpCells == 4
\* largest total number of entries of the three operands of a chain of np.dot
MaxChainCells == 7
\* largest number of entries of the matrix whose eigenvalues are asked for
MaxEigCells == 4
\* longest row and largest number of rows of a list literal
MaxLitLen == 2
MaxLitRows == 3

-----------------------------------------------------------------------------
(* Complex scalars                                                         *)

Max(x, y) == IF x >= y THEN x ELSE y

RECURSIVE Pow2(_)
Pow2(k) == IF k = 0 THEN 1 ELSE 2 * Pow2(k - 1)

\* lowest terms: halve while the denominator allows and all parts are even
RECURSIVE CNorm(_)
CNorm(x) ==
    IF x[5] > 0 /\ x[1] % 2 = 0 /\ x[2] % 2 = 0 /\ x[3] % 2 = 0 /\ x[4] % 2 = 0
    THEN CNorm(<<x[1] \div 2, x[2] \div 2, x[3] \div 2, x[4] \div 2, x[5] - 1>>)
    ELSE x

\* the Python literal p + qj
Cx(p, q) == <<p, 0, q, 0, 0>>

Zero == Cx(0, 0)
One == Cx(1, 0)
\* 1/np.sqrt(2)
InvSqrt2 == <<0, 1, 0, 0, 1>>

CAdd(x, y) ==
    LET k == Max(x[5], y[5])
        f == Pow2(k - x[5])
        g == Pow2(k - y[5])
    IN  CNorm(<<x[1]*f + y[1]*g, x[2]*f + y[2]*g,
                x[3]*f + y[3]*g, x[4]*f + y[4]*g, k>>)

CNeg(x) == <<0 - x[1], 0 - x[2], 0 - x[3], 0 - x[4], x[5]>>

CConj(x) == <<x[1], x[2], 0 - x[3], 0 - x[4], x[5]>>

\* (p + qi)(r + si) = (pr - qs) + (ps + qr)i, with p, q, r, s in Z[sqrt 2]/2^k
CMul(x, y) ==
    LET pr == <<x[1]*y[1] + 2*x[2]*y[2], x[1]*y[2] + x[2]*y[1]>>
        qs == <<x[3]*y[3] + 2*x[4]*y[4], x[3]*y[4] + x[4]*y[3]>>
        ps == <<x[1]*y[3] + 2*x[2]*y[4], x[1]*y[4] + x[2]*y[3]>>
        qr == <<x[3]*y[1] + 2*x[4]*y[2], x[3]*y[2] + x[4]*y[1]>>
    IN  CNorm(<<pr[1] - qs[1], pr[2] - qs[2],
                ps[1] + qr[1], ps[2] + qr[2], x[5] + y[5]>>)

\* what a float division by 0.0 gives (nan), which is close to no number
Nan == <<0, 0, 0, 0, -1>>

\* a quotient that is not one of the numbers <<a, b, c, d, k>>
NotRepresented == <<0, 0, 0, 0, -2>>

\* 2^j = n for some j >= 0
RECURSIVE IsPow2(_)
IsPow2(n) == n = 1 \/ (n > 1 /\ n % 2 = 0 /\ IsPow2(n \div 2))

RECURSIVE Log2(_)
Log2(n) == IF n <= 1 THEN 0 ELSE 1 + Log2(n \div 2)

\* x / t for floats x and t: nan when t is 0.0; exact when t = 2^j / 2^k,
\* the only divisors the circuits produce
CDiv(x, t) ==
    IF t = <<0, 0, 0, 0, 0>> THEN Nan
    ELSE IF t[2] = 0 /\ t[3] = 0 /\ t[4] = 0 /\ t[1] > 0 /\ IsPow2(t[1])
    THEN CNorm(<<x[1] * Pow2(t[5]), x[2] * Pow2(t[5]),
                 x[3] * Pow2(t[5]), x[4] * Pow2(t[5]), x[5] + Log2(t[1])>>)
    ELSE NotRepresented

\* np.abs(x)**2
AbsSq(x) == CMul(x, CConj(x))

\* np.isclose(a, b): |a - b| <= atol + rtol*|b| with rtol = 1e-5, atol = 1e-8.
\* On the exact values of the model two different numbers differ by far more
\* than the tolerance and equal numbers differ by 0, so the test is equality.
IsClose(a, b) == a = b

-----------------------------------------------------------------------------
(* Arrays: a shape (<<>>, <<n>> or <<r, c>>) and the entries in row-major  *)
(* order, as NumPy stores them.                                            *)

Arr(shape, data) == [shape |-> shape, data |-> data]

\* the value of a name that holds no array
NoArr == Arr(<<0>>, <<>>)

Rank(x) == Len(x.shape)

Cells(x) == Len(x.data)

\* np.array([e1, ..., en])
Vec(entries) == Arr(<<Len(entries)>>, entries)

\* np.array([[...], ..., [...]]) from rows of equal length
Mat(rows) ==
    LET r == Len(rows)
        c == Len(rows[1])
    IN  Arr(<<r, c>>, [k \in 1..(r * c) |-> rows[((k - 1) \div c) + 1][((k - 1) % c) + 1]])

\* the shape seen as two axes: NumPy prepends axes of length 1
Shape2(x) ==
    IF Rank(x) = 2 THEN x.shape
    ELSE IF Rank(x) = 1 THEN <<1, x.shape[1]>>
    ELSE <<1, 1>>

Rows(x) == Shape2(x)[1]
Cols(x) == Shape2(x)[2]

\* entry (i, j), 1-based, of the array seen as two axes
At(x, i, j) == x.data[(i - 1) * Cols(x) + j]

\* a result shape of two axes cut back to `rank` axes
CutShape(r, c, rank) ==
    IF rank = 2 THEN <<r, c>> ELSE IF rank = 1 THEN <<c>> ELSE <<>>

\* the array of shape CutShape(r, c, rank) with entry (i, j) = f[i][j]
Build(r, c, rank, f) ==
    Arr(CutShape(r, c, rank),
        [k \in 1..(r * c) |-> f[((k - 1) \div c) + 1][((k - 1) % c) + 1]])

\* what a call gives: an array (or a truth value) or the exception raised
Ok(v) == [err |-> "none", val |-> v]
Raise(e) == [err |-> e, val |-> NoArr]

\* the exception np.dot raises when the summed axes differ in length
NotAligned == "ValueError"
\* the exception raised when two shapes cannot be broadcast together
NotBroadcastable == "ValueError"

\* a Python list literal: depth 1 is a list of numbers [e1, ..., en], depth 2
\* a list of lists of numbers [[...], ..., [...]]
Lit(depth, items) == [depth |-> depth, items |-> items]

\* no literal
NoLit == Lit(0, <<>>)

\* the rows of a list of lists differ in length
Ragged(rows) == \E i, j \in DOMAIN rows : Len(rows[i]) # Len(rows[j])

\* np.array(l) that refuses a literal with no entries
NpArrayRejectingEmpty(l) ==
    IF l.depth = 1
    THEN IF Len(l.items) = 0 THEN Raise("ValueError") ELSE Ok(Vec(l.items))
    ELSE IF Len(l.items) = 0 \/ Ragged(l.items) THEN Raise("ValueError")
    ELSE IF Len(l.items[1]) = 0 THEN Raise("ValueError")
    ELSE Ok(Mat(l.items))

\* np.array(l): one axis for a list of numbers (of length 0 for the empty
\* list), two axes for a list of lists of one length (which may be 0);
\* ValueError (inhomogeneous shape) for lists of different lengths, as NumPy
\* does from 1.24 on (the notebook runs Python 3.12, which needs 1.26)
NpArray(l) ==
    IF l.depth = 1 \/ Len(l.items) = 0 THEN Ok(Vec(l.items))
    ELSE IF Ragged(l.items) THEN Raise("ValueError")
    ELSE Ok(Mat(l.items))

-----------------------------------------------------------------------------
(* NumPy calls used by the notebook                                        *)

\* x.real in the place of x.conj(): the imaginary parts are dropped
RealPart(x) ==
    Arr(x.shape, [k \in DOMAIN x.data |-> <<x.data[k][1], x.data[k][2], 0, 0, x.data[k][5]>>])

\* x.conj(), np.conjugate(x)
Conj(x) == Arr(x.shape, [k \in DOMAIN x.data |-> CConj(x.data[k])])

\* x.reshape(c, r) in the place of x.T: the axes are exchanged and the
\* entries stay in their order
Reshaped(x) ==
    IF Rank(x) < 2 THEN x ELSE Arr(<<Cols(x), Rows(x)>>, x.data)

\* x.T: reverses the axes; an array of one axis is returned as it is
T(x) ==
    IF Rank(x) < 2 THEN x
    ELSE Build(Cols(x), Rows(x), 2,
               [i \in 1..Cols(x) |-> [j \in 1..Rows(x) |-> At(x, j, i)]])

\* -x
Neg(x) == Arr(x.shape, [k \in DOMAIN x.data |-> CNeg(x.data[k])])

\* x * scalar.conjugate() in the place of x * scalar
ScaleByConjugate(x, z) ==
    Arr(x.shape, [k \in DOMAIN x.data |-> CMul(x.data[k], CConj(z))])

\* x * scalar
Scale(x, z) == Arr(x.shape, [k \in DOMAIN x.data |-> CMul(x.data[k], z)])

\* np.eye(n)
Eye(n) ==
    Build(n, n, 2, [i \in 1..n |-> [j \in 1..n |-> IF i = j THEN One ELSE Zero]])

\* broadcasting: two shapes are compatible when on every axis the lengths
\* are equal or one of them is 1
Broadcastable(x, y) ==
    /\ Rows(x) = Rows(y) \/ Rows(x) = 1 \/ Rows(y) = 1
    /\ Cols(x) = Cols(y) \/ Cols(x) = 1 \/ Cols(y) = 1

\* entry (i, j) of x stretched to a broadcast shape
BAt(x, i, j) ==
    At(x, IF Rows(x) = 1 THEN 1 ELSE i, IF Cols(x) = 1 THEN 1 ELSE j)

\* x + y without stretching: shapes must be equal
AddSameShapeOnly(x, y) ==
    IF x.shape # y.shape THEN Raise(NotBroadcastable)
    ELSE Ok(Arr(x.shape, [k \in DOMAIN x.data |-> CAdd(x.data[k], y.data[k])]))

\* x - y in the place of x + y
AddNegatingRight(x, y) ==
    IF ~Broadcastable(x, y) THEN Raise(NotBroadcastable)
    ELSE LET r == Max(Rows(x), Rows(y))
             c == Max(Cols(x), Cols(y))
         IN  Ok(Build(r, c, Max(Rank(x), Rank(y)),
                      [i \in 1..r |-> [j \in 1..c |->
                          CAdd(BAt(x, i, j), CNeg(BAt(y, i, j)))]]))

\* x + y
Add(x, y) ==
    IF ~Broadcastable(x, y) THEN Raise(NotBroadcastable)
    ELSE LET r == Max(Rows(x), Rows(y))
             c == Max(Cols(x), Cols(y))
         IN  Ok(Build(r, c, Max(Rank(x), Rank(y)),
                      [i \in 1..r |-> [j \in 1..c |->
                          CAdd(BAt(x, i, j), BAt(y, i, j))]]))

\* np.allclose(x, y)
AllClose(x, y) ==
    IF ~Broadcastable(x, y) THEN Raise(NotBroadcastable)
    ELSE LET r == Max(Rows(x), Rows(y))
             c == Max(Cols(x), Cols(y))
         IN  Ok(\A i \in 1..r : \A j \in 1..c :
                    IsClose(BAt(x, i, j), BAt(y, i, j)))

\* sum of the sequence of scalars q
RECURSIVE CSum(_)
CSum(q) == IF q = <<>> THEN Zero ELSE CAdd(Head(q), CSum(Tail(q)))

\* np.dot(x, y) with the entries of x conjugated, as np.vdot does
DotConjugating(x, y) ==
    LET n == Cols(x)
        yr == IF Rank(y) = 2 THEN Rows(y) ELSE Cols(y)
        yc == IF Rank(y) = 2 THEN Cols(y) ELSE 1
        ym(k, j) == IF Rank(y) = 2 THEN At(y, k, j) ELSE At(y, 1, k)
        rank == (Rank(x) - 1) + (Rank(y) - 1)
    IN  IF n # yr THEN Raise(NotAligned)
        ELSE Ok(Arr(IF rank = 2 THEN <<Rows(x), yc>>
                    ELSE IF rank = 0 THEN <<>>
                    ELSE IF Rank(x) = 2 THEN <<Rows(x)>> ELSE <<yc>>,
                    [e \in 1..(Rows(x) * yc) |->
                        LET i == ((e - 1) \div yc) + 1
                            j == ((e - 1) % yc) + 1
                        IN  CSum([k \in 1..n |->
                                CMul(CConj(At(x, i, k)), ym(k, j))])]))

\* np.dot(x, y) for arrays of one or two axes: the last axis of x is summed
\* against the first axis of y (against its only axis when y has one)
Dot(x, y) ==
    LET n == Cols(x)
        yr == IF Rank(y) = 2 THEN Rows(y) ELSE Cols(y)
        yc == IF Rank(y) = 2 THEN Cols(y) ELSE 1
        ym(k, j) == IF Rank(y) = 2 THEN At(y, k, j) ELSE At(y, 1, k)
        rank == (Rank(x) - 1) + (Rank(y) - 1)
    IN  IF n # yr THEN Raise(NotAligned)
        ELSE Ok(Arr(IF rank = 2 THEN <<Rows(x), yc>>
                    ELSE IF rank = 0 THEN <<>>
                    ELSE IF Rank(x) = 2 THEN <<Rows(x)>> ELSE <<yc>>,
                    [e \in 1..(Rows(x) * yc) |->
                        LET i == ((e - 1) \div yc) + 1
                            j == ((e - 1) % yc) + 1
                        IN  CSum([k \in 1..n |-> CMul(At(x, i, k), ym(k, j))])]))

\* np.kron(x, y) with the roles of the block index and the inner index
\* exchanged: the blocks are copies of x scaled by the entries of y
KronBlocksOfLeft(x, y) ==
    LET p == Rows(x)
        q == Cols(x)
    IN  Build(p * Rows(y), q * Cols(y), Max(Rank(x), Rank(y)),
              [i \in 1..(p * Rows(y)) |-> [j \in 1..(q * Cols(y)) |->
                  CMul(At(x, ((i - 1) % p) + 1, ((j - 1) % q) + 1),
                       At(y, ((i - 1) \div p) + 1, ((j - 1) \div q) + 1))]])

\* np.kron(x, y) with the entries of y conjugated
KronConjugating(x, y) ==
    LET p == Rows(y)
        q == Cols(y)
    IN  Build(Rows(x) * p, Cols(x) * q, Max(Rank(x), Rank(y)),
              [i \in 1..(Rows(x) * p) |-> [j \in 1..(Cols(x) * q) |->
                  CMul(At(x, ((i - 1) \div p) + 1, ((j - 1) \div q) + 1),
                       CConj(At(y, ((i - 1) % p) + 1, ((j - 1) % q) + 1)))]])

\* np.kron(x, y): block (i, j) of the result is x[i, j] * y
Kron(x, y) ==
    LET p == Rows(y)
        q == Cols(y)
    IN  Build(Rows(x) * p, Cols(x) * q, Max(Rank(x), Rank(y)),
              [i \in 1..(Rows(x) * p) |-> [j \in 1..(Cols(x) * q) |->
                  CMul(At(x, ((i - 1) \div p) + 1, ((j - 1) \div q) + 1),
                       At(y, ((i - 1) % p) + 1, ((j - 1) % q) + 1))]])

\* the value of `eigenvalues`: not bound, None, or the array eigvals returned.
\* The eigenvalues of a matrix of at most two rows are written mid + sqrt(rad)
\* and mid - sqrt(rad), the roots of its characteristic polynomial.
NoEig == [tag |-> "unset", mid |-> Zero, rad |-> Zero]
EigNone == [tag |-> "None", mid |-> Zero, rad |-> Zero]

Half == <<1, 0, 0, 0, 1>>

\* np.linalg.eigvals(x): LinAlgError unless the last two axes are square.
\* 1 x 1: the entry.  2 x 2 [[a, b], [c, d]]: (a + d)/2 +- sqrt(((a - d)/2)^2 + b*c).
\* Larger matrices are outside the explored inputs and are only counted.
Eigvals(x) ==
    IF Rank(x) < 2 \/ Rows(x) # Cols(x) THEN [err |-> "LinAlgError", val |-> NoEig]
    ELSE IF Rows(x) = 1
    THEN [err |-> "none", val |-> [tag |-> "eigvals", mid |-> x.data[1], rad |-> Zero]]
    ELSE IF Rows(x) = 2
    THEN LET hd == CMul(Half, CAdd(x.data[1], CNeg(x.data[4])))
         IN  [err |-> "none",
              val |-> [tag |-> "eigvals",
                       mid |-> CMul(Half, CAdd(x.data[1], x.data[4])),
                       rad |-> CAdd(CMul(hd, hd), CMul(x.data[2], x.data[3]))]]
    ELSE [err |-> "none", val |-> [tag |-> "eigvals of more than two", mid |-> Zero, rad |-> Zero]]

-----------------------------------------------------------------------------
(* Inputs                                                                  *)

Shapes2(n) == {sh \in (1..n) \X (1..n) : sh[1] * sh[2] <= n}

Shapes1(n) == {<<k>> : k \in 1..n}

ShapeCells(sh) == IF Len(sh) = 2 THEN sh[1] * sh[2] ELSE sh[1]

\* x is an array with a shape of `shapes` and entries of S
Draw(x, shapes, S) ==
    \E sh \in shapes : \E d \in [1..ShapeCells(sh) -> S] : x = Arr(sh, d)

\* the literals of the predicate cells
HermitianExample == Mat(<<<<Cx(2, 0), Cx(2, -1)>>, <<Cx(2, 1), Cx(3, 0)>>>>)
UnitaryExample ==
    Mat(<<<<InvSqrt2, InvSqrt2>>,
          <<CMul(InvSqrt2, Cx(0, 1)), CMul(CNeg(InvSqrt2), Cx(0, 1))>>>>)
Ex1H == Mat(<<<<Cx(3, 0), Cx(2, 1)>>, <<Cx(2, -1), Cx(1, 0)>>>>)
Ex2U ==
    Mat(<<<<InvSqrt2, CMul(Cx(0, 1), InvSqrt2)>>,
          <<CMul(Cx(0, 1), InvSqrt2), InvSqrt2>>>>)

PredScalars == {Cx(0, 0), Cx(1, 0), Cx(0, 1), Cx(0, -1)}

PredExamples == {HermitianExample, UnitaryExample, Ex1H, Ex2U}

\* the literals of the product and sum cells: <<left operand, right operand>>
KronVecExample == <<Vec(<<Cx(1, 2), Cx(3, 4)>>), Vec(<<Cx(5, 6), Cx(7, 8)>>)>>
KronMatExample ==
    <<Mat(<<<<Cx(1, 2), Cx(3, 4)>>, <<Cx(5, 6), Cx(7, 8)>>>>),
      Mat(<<<<Cx(9, 10), Cx(11, 12)>>, <<Cx(13, 14), Cx(15, 16)>>>>)>>
Ex3VW == <<Vec(<<Cx(1, 1), Cx(2, -1)>>), Vec(<<Cx(1, -2), Cx(3, 0)>>)>>
Ex4M1M2 ==
    <<Mat(<<<<Cx(0, 0), Cx(1, 0)>>, <<Cx(1, 0), Cx(0, 0)>>>>),
      Mat(<<<<Cx(0, 1), Cx(0, 0)>>, <<Cx(0, 0), Cx(0, -1)>>>>)>>
DotVecExample ==
    <<Mat(<<<<Cx(2, 0), Cx(3, 0)>>, <<Cx(1, 0), Cx(4, 0)>>>>),
      Vec(<<Cx(5, 0), Cx(6, 0)>>)>>
Ex14MV ==
    <<Mat(<<<<Cx(1, 1), Cx(2, -1)>>, <<Cx(3, 0), Cx(4, 1)>>>>),
      Mat(<<<<Cx(2, -1)>>, <<Cx(1, 3)>>>>)>>
ColumnExample ==
    <<Mat(<<<<Cx(2, 3)>>, <<Cx(5, -4)>>, <<Cx(1, 1)>>>>),
      Mat(<<<<Cx(1, -1)>>, <<Cx(3, 2)>>, <<Cx(4, -4)>>>>)>>
Ex7M1M2 ==
    <<Mat(<<<<Cx(1, 1), Cx(2, -1)>>, <<Cx(3, 2), Cx(4, 0)>>>>),
      Mat(<<<<Cx(2, -3), Cx(1, 0)>>, <<Cx(0, 1), Cx(2, 2)>>>>)>>
SquareExampleM1 ==
    Mat(<<<<Cx(2, 3), Cx(4, -1), Cx(0, 0)>>,
          <<Cx(1, 1), Cx(3, 3), Cx(5, 0)>>,
          <<Cx(4, 0), Cx(6, -2), Cx(1, -1)>>>>)
ActionExample == <<SquareExampleM1, ColumnExample[1]>>

PairExamples ==
    {KronVecExample, KronMatExample, Ex3VW, Ex4M1M2, DotVecExample, Ex14MV,
     ColumnExample, Ex7M1M2, ActionExample}

PairScalars == {Cx(1, 1), Cx(2, -1)}

Shapes12(n) == Shapes1(n) \cup Shapes2(n)

-----------------------------------------------------------------------------
(* The predicate cells                                                     *)

PyBool(b) == IF b THEN "True" ELSE "False"

\* np.allclose(H, H.T): the test for a symmetric matrix
IsSymmetric(H) == AllClose(H, T(H))

\* is_hermitian = np.allclose(H, H.conj().T)
IsHermitian(H) == AllClose(H, T(Conj(H)))

\* is_unitary = np.allclose(np.dot(U, U.conj().T), np.eye(2))
IsUnitary(U) ==
    LET UUd == Dot(U, T(Conj(U)))
    IN  IF UUd.err # "none" THEN UUd ELSE AllClose(UUd.val, Eye(2))

\* Exercise 1 on the matrix A:
\*   is_hermitian = np.allclose(H, H.conj().T)
\*   eigenvalues = np.linalg.eigvals(H) if is_hermitian else None
\* A call that raises ends the cell and leaves its name as it was.
Ex1Hermitian ==
    LET r == IsHermitian(A)
        e == Eigvals(A)
    IN  /\ op' = "is_hermitian"
        /\ err' = IF r.err # "none" THEN r.err
                  ELSE IF r.val THEN e.err ELSE "none"
        /\ ans' = IF r.err = "none" THEN PyBool(r.val) ELSE ans
        /\ eig' = IF r.err # "none" THEN eig
                  ELSE IF ~r.val THEN EigNone
                  ELSE IF e.err = "none" THEN e.val ELSE eig
        /\ UNCHANGED <<lit, A, B, C, s, out>>

\* Exercise 2 on the matrix A
Ex2Unitary ==
    LET r == IsUnitary(A)
    IN  /\ op' = "is_unitary"
        /\ err' = r.err
        /\ out' = T(Conj(A))
        /\ ans' = IF r.err = "none" THEN PyBool(r.val) ELSE ans
        /\ UNCHANGED <<lit, A, B, C, s, eig>>

InitPred ==
    /\ \/ Draw(A, Shapes2(MaxPredCells), PredScalars)
       \/ A \in PredExamples
    /\ B = NoArr /\ C = NoArr /\ s = Zero
    /\ lit = NoLit
    /\ op = "start" /\ out = NoArr
    /\ ans = "unset" /\ eig = NoEig /\ err = "none"

NextPred == Ex1Hermitian \/ Ex2Unitary

SpecPred == InitPred /\ [][NextPred]_vars

-----------------------------------------------------------------------------
(* Claims about the predicate cells                                        *)

SelfAdjoint(M) ==
    /\ Rows(M) = Cols(M)
    /\ \A i \in 1..Rows(M) : \A j \in 1..Cols(M) :
           At(M, i, j) = CConj(At(M, j, i))

\* C1: the Hermitian check answers True exactly for the square matrices M
\* with M[i,j] = conj(M[j,i]) for all i, j; for any other matrix it answers
\* False or raises, so it is never True for a non-square matrix.
C1_HermitianIffSquareSelfAdjoint ==
    op = "is_hermitian" =>
        ((err # NotBroadcastable /\ ans = "True") <=> SelfAdjoint(A))

IdentityProduct(M) ==
    /\ Rows(M) = Cols(M)
    /\ \A i \in 1..Rows(M) : \A j \in 1..Rows(M) :
           CSum([k \in 1..Cols(M) |-> CMul(At(M, i, k), CConj(At(M, j, k)))])
               = IF i = j THEN One ELSE Zero

\* C2: the unitary check answers True exactly for the square n x n matrices
\* M whose product with their adjoint is the n x n identity; it is never
\* True for a non-square matrix.
C2_UnitaryIffSquareIdentityProduct ==
    op = "is_unitary" =>
        ((err = "none" /\ ans = "True") <=> IdentityProduct(A))

-----------------------------------------------------------------------------
(* The product and sum cells, on the operands A and B                      *)

\* tensor_product = np.kron(A, B)
KronAB ==
    /\ op' = "kron"
    /\ out' = Kron(A, B)
    /\ err' = "none"
    /\ UNCHANGED <<lit, A, B, C, s, ans, eig>>

\* result = np.dot(A, B) that clears the name when the call fails
DotABClearing ==
    LET r == Dot(A, B)
    IN  /\ op' = "dot"
        /\ err' = r.err
        /\ out' = r.val
        /\ UNCHANGED <<lit, A, B, C, s, ans, eig>>

\* result = np.dot(A, B): the name is bound only when the call returns
DotAB ==
    LET r == Dot(A, B)
    IN  /\ op' = "dot"
        /\ err' = r.err
        /\ out' = IF r.err = "none" THEN r.val ELSE out
        /\ UNCHANGED <<lit, A, B, C, s, ans, eig>>

\* sum = A + B
AddAB ==
    LET r == Add(A, B)
    IN  /\ op' = "add"
        /\ err' = r.err
        /\ out' = IF r.err = "none" THEN r.val ELSE out
        /\ UNCHANGED <<lit, A, B, C, s, ans, eig>>

InitPair ==
    /\ \/ \E sa \in Shapes12(MaxPairCells) : \E sb \in Shapes12(MaxPairCells) :
              /\ ShapeCells(sa) + ShapeCells(sb) <= MaxPairCells
              /\ Draw(A, {sa}, PairScalars)
              /\ Draw(B, {sb}, PairScalars)
       \/ \E e \in PairExamples : A = e[1] /\ B = e[2]
    /\ C = NoArr /\ s = Zero
    /\ lit = NoLit
    /\ op = "start" /\ out = NoArr
    /\ ans = "unset" /\ eig = NoEig /\ err = "none"

NextPair == KronAB \/ DotAB \/ AddAB

SpecPair == InitPair /\ [][NextPair]_vars

Spec == SpecPair

-----------------------------------------------------------------------------
(* Claims about np.kron, np.dot and + on two operands                      *)

\* C3: for vectors A (length n) and B (length m), np.kron(A, B) is one
\* vector of length n*m whose entry at index i*m + j is A[i]*B[j]; for
\* v = [1+1j, 2-1j], w = [1-2j, 3] it is [3-1j, 3+3j, 0-5j, 6-3j].
C3_KronVectors ==
    (op = "kron" /\ Rank(A) = 1 /\ Rank(B) = 1) =>
        LET n == Cells(A)
            m == Cells(B)
        IN  /\ err = "none"
            /\ out.shape = <<n * m>>
            /\ \A i \in 0..(n - 1) : \A j \in 0..(m - 1) :
                   out.data[i * m + j + 1] = CMul(A.data[i + 1], B.data[j + 1])
            /\ <<A, B>> = Ex3VW =>
                   out = Vec(<<Cx(3, -1), Cx(3, 3), Cx(0, -5), Cx(6, -3)>>)

C3_Witness ==
    /\ op = "kron" /\ Rank(A) = 1 /\ Rank(B) = 1
    /\ Cells(A) = 2 /\ Cells(B) = 3
    /\ A.data[1] # A.data[2]
    /\ out.data[4] = CMul(A.data[2], B.data[1])

\* C4: for matrices A (m x n) and B (p x q), np.kron(A, B) has shape
\* (m*p) x (n*q) and its entry at row i*p + r, column j*q + c is
\* A[i,j]*B[r,c]; for M1 = [[0,1],[1,0]], M2 = [[1j,0],[0,-1j]] it is
\* [[0,0,1j,0],[0,0,0,-1j],[1j,0,0,0],[0,-1j,0,0]].
C4_KronMatrices ==
    (op = "kron" /\ Rank(A) = 2 /\ Rank(B) = 2) =>
        LET m == Rows(A)
            n == Cols(A)
            p == Rows(B)
            q == Cols(B)
        IN  /\ err = "none"
            /\ out.shape = <<m * p, n * q>>
            /\ Cells(out) = m * p * n * q
            /\ \A i \in 0..(m - 1) : \A j \in 0..(n - 1) :
                 \A r \in 0..(p - 1) : \A c \in 0..(q - 1) :
                   out.data[(i * p + r) * (n * q) + (j * q + c) + 1]
                       = CMul(At(A, i + 1, j + 1), At(B, r + 1, c + 1))
            /\ <<A, B>> = Ex4M1M2 =>
                   out = Mat(<<<<Cx(0, 0), Cx(0, 0), Cx(0, 1), Cx(0, 0)>>,
                               <<Cx(0, 0), Cx(0, 0), Cx(0, 0), Cx(0, -1)>>,
                               <<Cx(0, 1), Cx(0, 0), Cx(0, 0), Cx(0, 0)>>,
                               <<Cx(0, 0), Cx(0, -1), Cx(0, 0), Cx(0, 0)>>>>)

C4_Witness ==
    /\ op = "kron" /\ A.shape = <<2, 1>> /\ B.shape = <<1, 2>>
    /\ A.data[1] # A.data[2] /\ B.data[1] # B.data[2]
    /\ out.shape = <<2, 2>>
    /\ out.data[3] = CMul(A.data[2], B.data[1])

\* C6: np.kron is commutative only up to a permutation of the indices: the
\* entry of kron(B, A) at row r*m + i, column c*n + j is the entry of
\* kron(A, B) at row i*p + r, column j*q + c (for vectors: index j*n + i
\* against index i*m + j).
C6_KronCommutesUpToPermutation ==
    (op = "kron" /\ Rank(A) = Rank(B)) =>
        LET m == Rows(A)
            n == Cols(A)
            p == Rows(B)
            q == Cols(B)
            ba == Kron(B, A)
        IN  /\ ba.shape = out.shape
            /\ \A i \in 0..(m - 1) : \A j \in 0..(n - 1) :
                 \A r \in 0..(p - 1) : \A c \in 0..(q - 1) :
                   ba.data[(r * m + i) * (n * q) + (c * n + j) + 1]
                       = out.data[(i * p + r) * (n * q) + (j * q + c) + 1]

\* ... and it is not commutative: here kron(A, B) # kron(B, A)
C6_Witness ==
    /\ op = "kron" /\ Rank(A) = Rank(B) /\ A.shape = B.shape
    /\ out # Kron(B, A)

\* the summed axis of the right operand of np.dot
Inner(y) == IF Rank(y) = 2 THEN Rows(y) ELSE Cells(y)

\* C8: for A (m x n) and B (n x p), np.dot(A, B) is m x p with entry (i, j)
\* the sum over k of A[i,k]*B[k,j]; a vector of length n on the right is
\* used as a column and gives the m sums as a vector.
C8_DotIsMatrixProduct ==
    (op = "dot" /\ Rank(A) = 2 /\ Cols(A) = Inner(B)) =>
        LET m == Rows(A)
            n == Cols(A)
        IN  /\ err = "none"
            /\ Rank(B) = 2 =>
                /\ out.shape = <<m, Cols(B)>>
                /\ \A i \in 1..m : \A j \in 1..Cols(B) :
                       out.data[(i - 1) * Cols(B) + j]
                           = CSum([k \in 1..n |->
                                 CMul(A.data[(i - 1) * n + k],
                                      B.data[(k - 1) * Cols(B) + j])])
            /\ Rank(B) = 1 =>
                /\ out.shape = <<m>>
                /\ \A i \in 1..m :
                       out.data[i]
                           = CSum([k \in 1..n |->
                                 CMul(A.data[(i - 1) * n + k], B.data[k])])
            /\ <<A, B>> = DotVecExample => out = Vec(<<Cx(28, 0), Cx(29, 0)>>)
            /\ <<A, B>> = Ex14MV => out = Mat(<<<<Cx(8, 6)>>, <<Cx(7, 10)>>>>)

C8_Witness ==
    /\ op = "dot" /\ <<A, B>> = Ex14MV
    /\ out = Mat(<<<<Cx(8, 6)>>, <<Cx(7, 10)>>>>)

DotMismatch == Rank(A) = 2 /\ Rank(B) = 2 /\ Cols(A) # Rows(B)

\* C9 as claimed: np.dot on A (m x n) and B (r x p) with n # r fails with
\* an error distinct from the shape error, and atomically: no result is
\* bound and no operand changes.
C9_DotMismatchDistinctError ==
    [][(op' = "dot" /\ DotMismatch) =>
          /\ err' # "none" /\ err' # NotBroadcastable
          /\ out' = out /\ A' = A /\ B' = B]_vars

\* C9 as amended: np.dot on A (m x n) and B (r x p) with n # r raises
\* ValueError at the call (the class of the shape error too), and
\* atomically: no result is bound and no operand changes.
C9_DotMismatchRaisesAtomically ==
    [][(op' = "dot" /\ DotMismatch) =>
          /\ err' = "ValueError"
          /\ out' = out /\ A' = A /\ B' = B]_vars

C9_Witness ==
    /\ op = "dot" /\ DotMismatch /\ err = "ValueError"
    /\ out = Kron(A, B)

Compatible(x, y) ==
    \A ax \in 1..2 :
        Shape2(x)[ax] = Shape2(y)[ax] \/ Shape2(x)[ax] = 1 \/ Shape2(y)[ax] = 1

ElementwiseSum ==
    /\ err = "none"
    /\ out.shape = A.shape
    /\ \A k \in 1..Cells(A) : out.data[k] = CAdd(A.data[k], B.data[k])

\* C10 as claimed: A + B is the elementwise sum when the shapes are equal
\* and fails whenever they differ.
C10_AddFailsOnDifferentShapes ==
    op = "add" =>
        /\ A.shape = B.shape => ElementwiseSum
        /\ A.shape # B.shape => err # "none"

\* C10 as amended: A + B is the elementwise sum when the shapes are equal;
\* it raises ValueError exactly when the shapes cannot be broadcast (on some
\* axis the lengths differ and neither is 1); shapes that differ but can be
\* broadcast are stretched and summed, so a column n x 1 plus a row 1 x n
\* is the n x n array of the sums A[i] + B[j].
C10_AddBroadcasts ==
    op = "add" =>
        /\ A.shape = B.shape => ElementwiseSum
        /\ ~Compatible(A, B) <=> err = "ValueError"
        /\ Compatible(A, B) =>
              /\ err = "none"
              /\ Rows(out) = Max(Rows(A), Rows(B))
              /\ Cols(out) = Max(Cols(A), Cols(B))
              /\ Rank(out) = Max(Rank(A), Rank(B))
        /\ \A n \in 2..MaxPairCells :
              (A.shape = <<n, 1>> /\ B.shape = <<1, n>>) =>
                  /\ out.shape = <<n, n>>
                  /\ \A i \in 1..n : \A j \in 1..n :
                         out.data[(i - 1) * n + j] = CAdd(A.data[i], B.data[j])
        /\ <<A, B>> = ColumnExample =>
              out = Mat(<<<<Cx(3, 2)>>, <<Cx(8, -2)>>, <<Cx(5, -3)>>>>)

C10_Witness ==
    /\ op = "add" /\ A.shape = <<2, 1>> /\ B.shape = <<1, 2>>
    /\ err = "none" /\ out.shape = <<2, 2>>
    /\ A.data[1] # A.data[2] /\ B.data[1] # B.data[2]

-----------------------------------------------------------------------------
(* Products of products, of scaled operands and of sums, on A, B and C     *)

TripleExamples ==
    {<<Ex3VW[1], Ex3VW[2], KronVecExample[1]>>,
     <<Ex4M1M2[1], Ex4M1M2[2], KronMatExample[1]>>}

ScalarExamples == {Cx(0, 1), Cx(2, 1)}

\* np.kron(np.kron(A, B), C)
KronKron ==
    /\ op' = "kron_kron"
    /\ out' = Kron(Kron(A, B), C)
    /\ err' = "none"
    /\ UNCHANGED <<lit, A, B, C, s, ans, eig>>

\* np.kron(A * scalar, B)
KronScaledLeft ==
    \E z \in ScalarExamples :
        /\ s' = z
        /\ op' = "kron_scaled_left"
        /\ out' = Kron(Scale(A, z), B)
        /\ err' = "none"
        /\ UNCHANGED <<lit, A, B, C, ans, eig>>

\* np.kron(A, B * scalar)
KronScaledRight ==
    \E z \in ScalarExamples :
        /\ s' = z
        /\ op' = "kron_scaled_right"
        /\ out' = Kron(A, Scale(B, z))
        /\ err' = "none"
        /\ UNCHANGED <<lit, A, B, C, ans, eig>>

\* np.kron(A + C, B), for C of the shape of A
KronSumLeft ==
    /\ C.shape = A.shape
    /\ op' = "kron_sum_left"
    /\ out' = Kron(Add(A, C).val, B)
    /\ err' = "none"
    /\ UNCHANGED <<lit, A, B, C, s, ans, eig>>

\* np.kron(A, B + C), for C of the shape of B
KronSumRight ==
    /\ C.shape = B.shape
    /\ op' = "kron_sum_right"
    /\ out' = Kron(A, Add(B, C).val)
    /\ err' = "none"
    /\ UNCHANGED <<lit, A, B, C, s, ans, eig>>

\* three operands of the same number of axes
InitTriple ==
    /\ \/ \E shapes \in {Shapes1(MaxTripleCells), Shapes2(MaxTripleCells)} :
            \E sa \in shapes : \E sb \in shapes : \E sc \in shapes :
              /\ ShapeCells(sa) + ShapeCells(sb) + ShapeCells(sc) <= MaxTripleCells
              /\ Draw(A, {sa}, PairScalars)
              /\ Draw(B, {sb}, PairScalars)
              /\ Draw(C, {sc}, PairScalars)
       \/ \E e \in TripleExamples : A = e[1] /\ B = e[2] /\ C = e[3]
    /\ s = Zero
    /\ lit = NoLit
    /\ op = "start" /\ out = NoArr
    /\ ans = "unset" /\ eig = NoEig /\ err = "none"

NextTriple ==
    KronKron \/ KronScaledLeft \/ KronScaledRight \/ KronSumLeft \/ KronSumRight

SpecTriple == InitTriple /\ [][NextTriple]_vars

\* C5: np.kron is bilinear: kron(A*s, B) = kron(A, B)*s = kron(A, B*s),
\* kron(A + A2, B) = kron(A, B) + kron(A2, B) and
\* kron(A, B + B2) = kron(A, B) + kron(A, B2), for A2 of the shape of A and
\* B2 of the shape of B.
C5_KronBilinear ==
    /\ op \in {"kron_scaled_left", "kron_scaled_right"} =>
           out = Scale(Kron(A, B), s)
    /\ op = "kron_sum_left" => Ok(out) = Add(Kron(A, B), Kron(C, B))
    /\ op = "kron_sum_right" => Ok(out) = Add(Kron(A, B), Kron(A, C))

C5_Witness ==
    /\ op = "kron_scaled_right" /\ s = Cx(2, 1)
    /\ Cells(A) > 1 /\ Cells(B) > 1
    /\ out # Kron(A, B)

\* C7: np.kron is associative: kron(kron(A, B), C) = kron(A, kron(B, C)),
\* shape and entries.
C7_KronAssociative ==
    op = "kron_kron" =>
        /\ out.shape = Kron(A, Kron(B, C)).shape
        /\ out.data = Kron(A, Kron(B, C)).data

C7_Witness ==
    /\ op = "kron_kron"
    /\ Cells(A) = 2 /\ Cells(B) = 2 /\ Cells(C) = 2
    /\ A.shape # B.shape /\ B.data[1] # B.data[2] /\ C.data[1] # C.data[2]
    /\ Cells(out) = 8

-----------------------------------------------------------------------------
(* The operation cells of "Complex Vector and Matrix Operations": sum,     *)
(* negation, product by a scalar, transpose, conjugate and adjunct of the  *)
(* arrays A and B, and what the exercises compose from them.               *)

\* the literals of the operation cells: <<first array, second array>>
Ex1V1V2 ==
    <<Mat(<<<<Cx(1, 2)>>, <<Cx(3, -1)>>>>), Mat(<<<<Cx(2, -1)>>, <<Cx(4, 2)>>>>)>>
SquareExampleM2 ==
    Mat(<<<<Cx(1, 0), Cx(2, 1), Cx(3, -3)>>,
          <<Cx(0, 0), Cx(-1, 2), Cx(1, -2)>>,
          <<Cx(3, 3), Cx(2, 0), Cx(4, 4)>>>>)
Ex2V == Mat(<<<<Cx(2, 3)>>, <<Cx(1, -2)>>>>)
Ex3V == Mat(<<<<Cx(1, -1)>>, <<Cx(2, 2)>>>>)
Ex9M == Mat(<<<<Cx(1, -1), Cx(2, 0)>>, <<Cx(3, 1), Cx(4, -2)>>>>)
Ex4V == Mat(<<<<Cx(2, -1)>>, <<Cx(3, 4)>>>>)
Ex6V == Mat(<<<<Cx(1, -2)>>, <<Cx(3, 1)>>>>)
Ex11M == Mat(<<<<Cx(1, -1), Cx(2, 2)>>, <<Cx(3, 0), Cx(4, -1)>>>>)
Ex12M == Mat(<<<<Cx(1, 2), Cx(3, -1)>>, <<Cx(4, 0), Cx(5, 1)>>>>)

OpExamples ==
    {ColumnExample, Ex1V1V2, Ex7M1M2, <<SquareExampleM1, SquareExampleM2>>,
     <<Ex2V, Ex2V>>, Ex3VW, <<Ex4V, Ex6V>>, <<Ex6V, Ex4V>>,
     <<Ex11M, Ex12M>>, <<Ex12M, Ex11M>>, <<Ex3V, Ex9M>>, <<Ex9M, Ex3V>>}

\* the scalars of the cells: 3 + 1j, 2 + 3j, 0.5 + 0.5j
OpScalars == {Cx(3, 1), Cx(2, 3), <<1, 0, 1, 0, 1>>}

\* sum = B + A
AddBA ==
    LET r == Add(B, A)
    IN  /\ op' = "add_ba"
        /\ err' = r.err
        /\ out' = IF r.err = "none" THEN r.val ELSE out
        /\ UNCHANGED <<lit, A, B, C, s, ans, eig>>

\* neg_v = -A
NegA ==
    /\ op' = "neg"
    /\ out' = Neg(A)
    /\ err' = "none"
    /\ UNCHANGED <<lit, A, B, C, s, ans, eig>>

\* A + (-A)
AddNegA ==
    LET r == Add(A, Neg(A))
    IN  /\ op' = "add_neg"
        /\ err' = r.err
        /\ out' = IF r.err = "none" THEN r.val ELSE out
        /\ UNCHANGED <<lit, A, B, C, s, ans, eig>>

\* A *= scalar: the product written into the operand itself
ScaleAInPlace ==
    \E z \in OpScalars :
        /\ s' = z
        /\ op' = "scale"
        /\ A' = Scale(A, z)
        /\ out' = Scale(A, z)
        /\ err' = "none"
        /\ UNCHANGED <<lit, B, C, ans, eig>>

\* mult_v = A * scalar
ScaleA ==
    \E z \in OpScalars :
        /\ s' = z
        /\ op' = "scale"
        /\ out' = Scale(A, z)
        /\ err' = "none"
        /\ UNCHANGED <<lit, A, B, C, ans, eig>>

\* conjugate = np.conjugate(A)
ConjA ==
    /\ op' = "conj"
    /\ out' = Conj(A)
    /\ err' = "none"
    /\ UNCHANGED <<lit, A, B, C, s, ans, eig>>

\* transpose = A.T
TransposeA ==
    /\ op' = "T"
    /\ out' = T(A)
    /\ err' = "none"
    /\ UNCHANGED <<lit, A, B, C, s, ans, eig>>

\* adjunct = A.T.conj()
AdjunctA ==
    /\ op' = "adjunct"
    /\ out' = Conj(T(A))
    /\ err' = "none"
    /\ UNCHANGED <<lit, A, B, C, s, ans, eig>>

\* U_dagger = A.conj().T
DaggerA ==
    /\ op' = "dagger"
    /\ out' = T(Conj(A))
    /\ err' = "none"
    /\ UNCHANGED <<lit, A, B, C, s, ans, eig>>

\* np.conjugate(np.conjugate(A))
ConjConjA ==
    /\ op' = "conj_conj"
    /\ out' = Conj(Conj(A))
    /\ err' = "none"
    /\ UNCHANGED <<lit, A, B, C, s, ans, eig>>

\* A.T.T
TransposeTransposeA ==
    /\ op' = "T_T"
    /\ out' = T(T(A))
    /\ err' = "none"
    /\ UNCHANGED <<lit, A, B, C, s, ans, eig>>

\* A.T.conj().T.conj()
AdjunctAdjunctA ==
    /\ op' = "adjunct_adjunct"
    /\ out' = Conj(T(Conj(T(A))))
    /\ err' = "none"
    /\ UNCHANGED <<lit, A, B, C, s, ans, eig>>

InitOps ==
    /\ \/ \E sa \in Shapes12(MaxOpCells) : \E sb \in Shapes12(MaxOpCells) :
              /\ ShapeCells(sa) + ShapeCells(sb) <= MaxOpCells
              /\ Draw(A, {sa}, PairScalars)
              /\ Draw(B, {sb}, PairScalars)
       \/ Draw(A, Shapes12(MaxOpCells), PairScalars) /\ B = A
       \/ \E e \in OpExamples : A = e[1] /\ B = e[2]
    /\ C = NoArr /\ s = Zero
    /\ lit = NoLit
    /\ op = "start" /\ out = NoArr
    /\ ans = "unset" /\ eig = NoEig /\ err = "none"

NextOps ==
    \/ AddAB
    \/ DotAB
    \/ KronAB
    \/ AddBA
    \/ NegA
    \/ AddNegA
    \/ ScaleA
    \/ ConjA
    \/ TransposeA
    \/ AdjunctA
    \/ DaggerA
    \/ ConjConjA
    \/ TransposeTransposeA
    \/ AdjunctAdjunctA

SpecOps == InitOps /\ [][NextOps]_vars

\* C11: for A and B of equal shape, A + B = B + A; and A + (-A) is the zero
\* array of the shape of A, where -A has the real part and the imaginary
\* part of every entry of A with the sign flipped.
C11_AddCommutesAndNegCancels ==
    /\ (op = "add_ba" /\ A.shape = B.shape) =>
          /\ err = "none"
          /\ out.shape = A.shape
          /\ \A k \in 1..Cells(A) : out.data[k] = CAdd(A.data[k], B.data[k])
          /\ Ok(out) = Add(A, B)
    /\ op = "neg" =>
          /\ out.shape = A.shape
          /\ \A k \in 1..Cells(A) : \A part \in 1..4 :
                 out.data[k][part] = 0 - A.data[k][part]
          /\ \A k \in 1..Cells(A) : out.data[k][5] = A.data[k][5]
    /\ op = "add_neg" =>
          /\ err = "none"
          /\ out.shape = A.shape
          /\ \A k \in 1..Cells(A) : out.data[k] = Zero

C11_Witness ==
    /\ op = "add_ba" /\ A.shape = <<2, 1>> /\ B.shape = <<2, 1>>
    /\ A.data[1] # B.data[1] /\ A.data[2] # B.data[2]
    /\ out.data[2] = CAdd(A.data[2], B.data[2])

\* C12: conjugate, transpose and adjunct are involutions: applied twice to
\* any vector or matrix A each gives A back, shape and entries.
C12_Involutions ==
    op \in {"conj_conj", "T_T", "adjunct_adjunct"} =>
        /\ out.shape = A.shape
        /\ \A k \in 1..Cells(A) : out.data[k] = A.data[k]
        /\ out = A

C12_Witness ==
    /\ op = "adjunct_adjunct" /\ A.shape = <<2, 1>>
    /\ A.data[1] # A.data[2]
    /\ Conj(T(A)) # A /\ Conj(A) # A /\ T(A) # A
    /\ out = A

-----------------------------------------------------------------------------
(* Chains of np.dot: the stages of Exercise 5 (Mach-Zehnder), applied one  *)
(* after another to a state, and the product of three arrays.              *)
(* A is the beamsplitter, B the mirror (phase_shift), C the input state.   *)

\* the beamsplitter without its minus sign
Ex5BeamsplitterUnsigned ==
    Mat(<<<<InvSqrt2, InvSqrt2>>, <<InvSqrt2, InvSqrt2>>>>)
Ex5Beamsplitter ==
    Mat(<<<<InvSqrt2, InvSqrt2>>, <<InvSqrt2, CNeg(InvSqrt2)>>>>)
Ex5PhaseShift == Mat(<<<<Cx(0, 0), Cx(1, 0)>>, <<Cx(1, 0), Cx(0, 0)>>>>)
Ex5InputState == Vec(<<Cx(1, 0), Cx(0, 0)>>)

\* 2 x 2 matrices of the notebook, used as stages
StageMatrices ==
    {Ex5Beamsplitter, Ex5PhaseShift, Ex4M1M2[2], Ex7M1M2[1], Ex7M1M2[2], Ex2U}

InputScalars == {Zero, One, Cx(0, 1), InvSqrt2}

\* y1 = np.dot(beamsplitter, input_state)
Ex5Y1 ==
    LET r == Dot(A, C)
    IN  /\ op' = "y1"
        /\ err' = r.err
        /\ out' = IF r.err = "none" THEN r.val ELSE out
        /\ UNCHANGED <<lit, A, B, C, s, ans, eig>>

\* y2 = np.dot(phase_shift, y1)
Ex5Y2 ==
    /\ op = "y1" /\ err = "none"
    /\ LET r == Dot(B, out)
       IN  /\ op' = "y2"
           /\ err' = r.err
           /\ out' = IF r.err = "none" THEN r.val ELSE out
    /\ UNCHANGED <<lit, A, B, C, s, ans, eig>>

\* y3 = np.dot(beamsplitter, y2)
Ex5Y3 ==
    /\ op = "y2" /\ err = "none"
    /\ LET r == Dot(A, out)
       IN  /\ op' = "y3"
           /\ err' = r.err
           /\ out' = IF r.err = "none" THEN r.val ELSE out
    /\ UNCHANGED <<lit, A, B, C, s, ans, eig>>

\* np.dot(np.dot(A, B), C)
DotDot ==
    LET ab == Dot(A, B)
        r == IF ab.err # "none" THEN ab ELSE Dot(ab.val, C)
    IN  /\ op' = "dot_dot"
        /\ err' = r.err
        /\ out' = IF r.err = "none" THEN r.val ELSE out
        /\ UNCHANGED <<lit, A, B, C, s, ans, eig>>

\* A (m x n), B (n x p) and C (p x q, or a vector of length p); or two
\* stages and an input state of length 2
InitChain ==
    /\ \/ \E m, n, p \in 1..MaxChainCells :
            \E sc \in {<<p>>} \cup {<<p, q>> : q \in 1..MaxChainCells} :
              /\ m * n + n * p + ShapeCells(sc) <= MaxChainCells
              /\ Draw(A, {<<m, n>>}, PairScalars)
              /\ Draw(B, {<<n, p>>}, PairScalars)
              /\ Draw(C, {sc}, PairScalars)
       \/ /\ A \in StageMatrices
          /\ B \in StageMatrices
          /\ Draw(C, {<<2>>}, InputScalars)
    /\ s = Zero
    /\ lit = NoLit
    /\ op = "start" /\ out = NoArr
    /\ ans = "unset" /\ eig = NoEig /\ err = "none"

NextChain == Ex5Y1 \/ Ex5Y2 \/ Ex5Y3 \/ DotDot

SpecChain == InitChain /\ [][NextChain]_vars

\* C13: np.dot is associative: for A (m x n), B (n x p), C (p x q)
\* dot(dot(A, B), C) = dot(A, dot(B, C)); and the stages applied one after
\* another to a state give the product of the stage matrices applied to it.
C13_DotAssociative ==
    /\ op = "dot_dot" =>
          /\ err = "none"
          /\ Ok(out) = Dot(A, Dot(B, C).val)
          /\ Rank(C) = 2 =>
                /\ out.shape = <<Rows(A), Cols(C)>>
                /\ \A i \in 1..Rows(A) : \A l \in 1..Cols(C) :
                     At(out, i, l) =
                       CSum([j \in 1..Cols(A) |->
                         CSum([k \in 1..Cols(B) |->
                           CMul(CMul(At(A, i, j), At(B, j, k)), At(C, k, l))])])
    /\ (op = "y3" /\ err = "none") =>
          Ok(out) = Dot(Dot(A, Dot(B, A).val).val, C)

C13_Witness ==
    /\ op = "dot_dot" /\ err = "none"
    /\ A.shape = <<2, 1>> /\ B.shape = <<1, 2>> /\ C.shape = <<2, 1>>
    /\ A.data[1] # A.data[2] /\ B.data[1] # B.data[2] /\ C.data[1] # C.data[2]
    /\ out.shape = <<2, 1>>

\* C14: the adjunct of A is the conjugate of the transpose of A: its entry
\* (i, j) is the conjugate of the entry (j, i) of A, and A.conj().T and
\* A.T.conj() are the same array.
C14_AdjunctIsConjOfTranspose ==
    op \in {"adjunct", "dagger"} =>
        /\ out = Conj(T(A))
        /\ out = T(Conj(A))
        /\ Rank(A) = 2 =>
              /\ out.shape = <<Cols(A), Rows(A)>>
              /\ \A i \in 1..Cols(A) : \A j \in 1..Rows(A) :
                     out.data[(i - 1) * Rows(A) + j]
                         = CConj(A.data[(j - 1) * Cols(A) + i])
        /\ Rank(A) = 1 =>
              /\ out.shape = A.shape
              /\ \A k \in 1..Cells(A) : out.data[k] = CConj(A.data[k])
        /\ A = Ex12M =>
              out = Mat(<<<<Cx(1, -2), Cx(4, 0)>>, <<Cx(3, 1), Cx(5, -1)>>>>)

C14_Witness ==
    /\ op = "dagger" /\ A = Ex12M
    /\ out = Mat(<<<<Cx(1, -2), Cx(4, 0)>>, <<Cx(3, 1), Cx(5, -1)>>>>)

\* C15 as claimed: A.T of an R x C matrix is the C x R matrix with entry
\* (i, j) the entry (j, i) of A; a vector is flipped from column form to row
\* form, shape [n] becoming [1, n] and n x 1 becoming 1 x n, values kept.
C15_TransposeFlipsEveryVector ==
    op = "T" =>
        /\ Rank(A) = 2 =>
              /\ out.shape = <<Cols(A), Rows(A)>>
              /\ \A i \in 1..Cols(A) : \A j \in 1..Rows(A) :
                     out.data[(i - 1) * Rows(A) + j] = A.data[(j - 1) * Cols(A) + i]
        /\ Rank(A) = 1 =>
              /\ out.shape = <<1, Cells(A)>>
              /\ out.data = A.data

\* C15 as amended: A.T of an R x C matrix is the C x R matrix with entry
\* (i, j) the entry (j, i) of A, so an n x 1 column becomes a 1 x n row with
\* the same values; an array of one axis (shape [n]) is returned as it is,
\* with shape [n].
C15_TransposeKeepsOneAxis ==
    op = "T" =>
        /\ Rank(A) = 2 =>
              /\ out.shape = <<Cols(A), Rows(A)>>
              /\ \A i \in 1..Cols(A) : \A j \in 1..Rows(A) :
                     out.data[(i - 1) * Rows(A) + j] = A.data[(j - 1) * Cols(A) + i]
        /\ (Rank(A) = 2 /\ Cols(A) = 1) =>
              /\ out.shape = <<1, Rows(A)>>
              /\ out.data = A.data
        /\ Rank(A) = 1 =>
              /\ out.shape = <<Cells(A)>>
              /\ out.data = A.data
        /\ A = Ex4V => out = Mat(<<<<Cx(2, -1), Cx(3, 4)>>>>)
        /\ A = Ex11M =>
              out = Mat(<<<<Cx(1, -1), Cx(3, 0)>>, <<Cx(2, 2), Cx(4, -1)>>>>)

C15_Witness ==
    /\ op = "T" /\ A.shape = <<3>>
    /\ A.data[1] # A.data[3]
    /\ out.shape = <<3>>

\* C16: A * (r + si) has the shape of A and each entry p + qi of A becomes
\* (pr - qs) + (ps + qr)i; [[1-1j],[2+2j]] by 3+1j is [[4-2j],[4+8j]] and
\* [[1-1j,2],[3+1j,4-2j]] by 2+3j is [[5+1j,4+6j],[3+11j,14+8j]].
\* (An entry <<p, 0, q, 0, k>> is (p + qi)/2^k, the scalar is (r + si)/2^l.)
C16_ScaleIsComplexProduct ==
    op = "scale" =>
        /\ out.shape = A.shape
        /\ Cells(out) = Cells(A)
        /\ \A e \in 1..Cells(A) :
              LET p == A.data[e][1]
                  q == A.data[e][3]
                  r == s[1]
                  si == s[3]
              IN  (A.data[e][2] = 0 /\ A.data[e][4] = 0 /\ s[2] = 0 /\ s[4] = 0) =>
                      out.data[e] = CNorm(<<p * r - q * si, 0, p * si + q * r, 0,
                                            A.data[e][5] + s[5]>>)
        /\ (A = Ex3V /\ s = Cx(3, 1)) =>
              out = Mat(<<<<Cx(4, -2)>>, <<Cx(4, 8)>>>>)
        /\ (A = Ex9M /\ s = Cx(2, 3)) =>
              out = Mat(<<<<Cx(5, 1), Cx(4, 6)>>, <<Cx(3, 11), Cx(14, 8)>>>>)

C16_Witness ==
    /\ op = "scale" /\ A = Ex9M /\ s = Cx(2, 3)
    /\ out = Mat(<<<<Cx(5, 1), Cx(4, 6)>>, <<Cx(3, 11), Cx(14, 8)>>>>)

-----------------------------------------------------------------------------
(* Exercise 1 on matrices with the entries of H: the eigenvalues           *)

\* the entries of H = [[3, 2+1j], [2-1j, 1]], and 0
EigScalars == {Cx(0, 0), Cx(1, 0), Cx(3, 0), Cx(2, 1), Cx(2, -1)}

InitEig ==
    /\ \/ Draw(A, Shapes2(MaxEigCells), EigScalars)
       \/ A \in PredExamples
    /\ B = NoArr /\ C = NoArr /\ s = Zero
    /\ lit = NoLit
    /\ op = "start" /\ out = NoArr
    /\ ans = "unset" /\ eig = NoEig /\ err = "none"

NextEig == Ex1Hermitian

SpecEig == InitEig /\ [][NextEig]_vars

\* x is one of the numbers (a + b*sqrt2)/2^k with a + b*sqrt2 >= 0
NonNegReal(x) ==
    /\ x[3] = 0 /\ x[4] = 0
    /\ \/ x[1] >= 0 /\ x[2] >= 0
       \/ x[1] >= 0 /\ x[2] < 0 /\ x[1] * x[1] >= 2 * x[2] * x[2]
       \/ x[1] < 0 /\ x[2] >= 0 /\ 2 * x[2] * x[2] >= x[1] * x[1]

\* C17: when the Hermitian check answers True, every eigenvalue returned is
\* real (mid is real and rad is a real number >= 0, so mid +- sqrt(rad) has
\* imaginary part 0); the eigenvalues are computed only when the check
\* answers True, and the result is None when it answers False; for
\* H = [[3, 2+1j], [2-1j, 1]] they are 2 +- sqrt(6), the roots of
\* x^2 - 4x - 2 (their sum is 4 and their product -2).
C17_HermitianEigenvaluesReal ==
    op = "is_hermitian" =>
        /\ (err = "none" /\ ans = "True") =>
              /\ eig.tag = "eigvals"
              /\ eig.mid[3] = 0 /\ eig.mid[4] = 0
              /\ NonNegReal(eig.rad)
        /\ eig.tag = "eigvals" => (ans = "True" /\ err = "none")
        /\ (err = "none" /\ ans = "False") => eig = EigNone
        /\ err # "none" => eig = NoEig
        /\ A = Ex1H =>
              /\ ans = "True"
              /\ eig.tag = "eigvals"
              /\ CAdd(eig.mid, eig.mid) = Cx(4, 0)
              /\ CAdd(CMul(eig.mid, eig.mid), CNeg(eig.rad)) = Cx(-2, 0)
              /\ eig.rad = Cx(6, 0)

C17_Witness ==
    /\ op = "is_hermitian" /\ A = Ex1H
    /\ ans = "True" /\ err = "none"
    /\ eig = [tag |-> "eigvals", mid |-> Cx(2, 0), rad |-> Cx(6, 0)]

-----------------------------------------------------------------------------
(* Construction: m = np.array(literal)                                     *)

LitScalars == {Cx(1, -1), Cx(2, 0)}

\* the lists of at most n numbers
ListsUpTo(n) == UNION {[1..k -> LitScalars] : k \in 0..n}

\* m = np.array(lit); print(m.shape)
NpArrayLit ==
    LET r == NpArray(lit)
    IN  /\ op' = "array"
        /\ err' = r.err
        /\ A' = IF r.err = "none" THEN r.val ELSE A
        /\ UNCHANGED <<lit, B, C, s, out, ans, eig>>

InitBuild ==
    /\ \/ \E e \in ListsUpTo(MaxLitLen) : lit = Lit(1, e)
       \/ \E R \in 0..MaxLitRows : \E rows \in [1..R -> ListsUpTo(MaxLitLen)] :
              lit = Lit(2, rows)
       \/ lit = Lit(2, <<<<Cx(1, -1), Cx(2, 0)>>, <<Cx(3, 2), Cx(4, -1)>>>>)
    /\ A = NoArr /\ B = NoArr /\ C = NoArr /\ s = Zero
    /\ op = "start" /\ out = NoArr
    /\ ans = "unset" /\ eig = NoEig /\ err = "none"

NextBuild == NpArrayLit

SpecBuild == InitBuild /\ [][NextBuild]_vars

\* every row of the two-axis array x has exactly x.shape[2] entries
RowsOfEqualLength(x) ==
    Rank(x) = 2 => Cells(x) = x.shape[1] * x.shape[2]

\* C18 as claimed: construction fails for a vector of 0 entries, and for a
\* matrix with rows of different lengths, with no row, or with rows of 0
\* entries; every matrix constructed has all rows of exactly C entries.
C18_ConstructionRejectsEmpty ==
    op = "array" =>
        /\ (lit.depth = 1 /\ Len(lit.items) = 0) => err # "none"
        /\ (lit.depth = 2 /\ Len(lit.items) = 0) => err # "none"
        /\ (lit.depth = 2 /\ Ragged(lit.items)) => err # "none"
        /\ (lit.depth = 2 /\ \E i \in DOMAIN lit.items : Len(lit.items[i]) = 0) =>
              err # "none"
        /\ err = "none" => RowsOfEqualLength(A)

\* C18 as amended: np.array fails, with ValueError and no array bound, exactly
\* for a list of rows of different lengths.  A list of 0 numbers gives an
\* array of shape [0], a list of R rows of 0 numbers an array of shape
\* [R, 0], a list of n numbers shape [n], and a list of R rows of C numbers
\* shape [R, C] with entry (i, j) the j-th number of row i; every two-axis
\* array constructed has all rows of exactly C entries.
C18_ConstructionRejectsRaggedOnly ==
    op = "array" =>
        /\ err = "ValueError" <=> (lit.depth = 2 /\ Ragged(lit.items))
        /\ err \in {"none", "ValueError"}
        /\ err # "none" => A = NoArr
        /\ (lit.depth = 1 \/ Len(lit.items) = 0) =>
              /\ A.shape = <<Len(lit.items)>>
              /\ A.data = lit.items
        /\ (lit.depth = 2 /\ Len(lit.items) > 0 /\ ~Ragged(lit.items)) =>
              LET R == Len(lit.items)
                  cols == Len(lit.items[1])
              IN  /\ A.shape = <<R, cols>>
                  /\ Cells(A) = R * cols
                  /\ \A i \in 1..R : \A j \in 1..cols :
                         A.data[(i - 1) * cols + j] = lit.items[i][j]
        /\ err = "none" => RowsOfEqualLength(A)

C18_Witness ==
    /\ op = "array" /\ err = "none"
    /\ lit = Lit(2, <<<<>>, <<>>>>)
    /\ A.shape = <<2, 0>>

\* C19: no operation changes its operands: across every call of the
\* operation cells (sum, negation, product by a scalar, conjugate, transpose,
\* adjunct, np.dot, np.kron), A and B keep their shape and entries; the
\* result is a new value.
C19_OperandsNeverMutated ==
    [][A' = A /\ B' = B]_vars

\* a product by a scalar was computed, then the adjunct, and A is as it was
C19_Witness ==
    /\ op = "adjunct" /\ s = Cx(2, 3)
    /\ A = Ex3V
    /\ out = Mat(<<<<Cx(1, 1), Cx(2, -2)>>>>)

\* C20: in the Mach-Zehnder cell, from the input state [1, 0], the
\* beamsplitter H = (1/sqrt 2)[[1, 1], [1, -1]], the mirror X = [[0, 1], [1, 0]]
\* and the beamsplitter again give y1 = y2 = (1/sqrt 2)[1, 1] and the
\* output state y3 = [1, 0].
C20_MachZehnder ==
    (A = Ex5Beamsplitter /\ B = Ex5PhaseShift /\ C = Ex5InputState) =>
        /\ op \in {"y1", "y2", "y3"} => err = "none"
        /\ op = "y1" => out = Vec(<<InvSqrt2, InvSqrt2>>)
        /\ op = "y2" => out = Vec(<<InvSqrt2, InvSqrt2>>)
        /\ op = "y3" => out = Vec(<<Cx(1, 0), Cx(0, 0)>>)

C20_Witness ==
    /\ A = Ex5Beamsplitter /\ B = Ex5PhaseShift /\ C = Ex5InputState
    /\ op = "y3" /\ err = "none"
    /\ out = Vec(<<Cx(1, 0), Cx(0, 0)>>)

-----------------------------------------------------------------------------
(* Exercise 6: Deutsch's algorithm.  A is input_state1, B input_state2 and *)
(* C the oracle Uf; the beamsplitter and the identity are the cell's       *)
(* literals.  `out` holds y0, y1, y2, y3 in turn and then measured_state,  *)
(* s holds total_prob and ans the line the cell prints last.               *)

\* the beamsplitter without the factor 1/sqrt 2
Ex6BeamsplitterUnscaled ==
    Mat(<<<<Cx(1, 0), Cx(1, 0)>>, <<Cx(1, 0), Cx(-1, 0)>>>>)
Ex6Beamsplitter ==
    Mat(<<<<InvSqrt2, InvSqrt2>>, <<InvSqrt2, CNeg(InvSqrt2)>>>>)
Ex6InputState1 == Vec(<<Cx(1, 0), Cx(0, 0)>>)
Ex6InputState2 == Vec(<<Cx(0, 0), Cx(1, 0)>>)
Ex6Uf ==
    Mat(<<<<Cx(0, 0), Cx(1, 0), Cx(0, 0), Cx(0, 0)>>,
          <<Cx(1, 0), Cx(0, 0), Cx(0, 0), Cx(0, 0)>>,
          <<Cx(0, 0), Cx(0, 0), Cx(1, 0), Cx(0, 0)>>,
          <<Cx(0, 0), Cx(0, 0), Cx(0, 0), Cx(1, 0)>>>>)

\* the 4 x 4 matrix that sends basis state j to basis state p[j]
PermMatrix(p) ==
    Build(4, 4, 2, [i \in 1..4 |-> [j \in 1..4 |-> IF p[j] = i THEN One ELSE Zero]])

\* the oracles tried: every permutation of the four basis states (Uf is
\* one of them), and twice Uf, which is not unitary
OracleMatrices ==
    {PermMatrix(p) : p \in Permutations(1..4)} \cup {Scale(Ex6Uf, Cx(2, 0))}

\* the input states tried: four of norm 1, one of norm sqrt 2, and zero
QubitStates ==
    {Ex6InputState1, Ex6InputState2,
     Vec(<<InvSqrt2, InvSqrt2>>), Vec(<<InvSqrt2, CMul(Cx(0, 1), InvSqrt2)>>),
     Vec(<<Cx(1, 0), Cx(1, 0)>>), Vec(<<Cx(0, 0), Cx(0, 0)>>)}

\* y0 = np.kron(input_state1, input_state2)
Ex6Y0 ==
    /\ op = "start"
    /\ op' = "d_y0"
    /\ out' = Kron(A, B)
    /\ err' = "none"
    /\ UNCHANGED <<lit, A, B, C, s, ans, eig>>

\* y1 = np.dot(np.kron(beamsplitter, beamsplitter), y0)
Ex6Y1 ==
    /\ op = "d_y0" /\ err = "none"
    /\ LET r == Dot(Kron(Ex6Beamsplitter, Ex6Beamsplitter), out)
       IN  /\ op' = "d_y1"
           /\ err' = r.err
           /\ out' = IF r.err = "none" THEN r.val ELSE out
    /\ UNCHANGED <<lit, A, B, C, s, ans, eig>>

\* y2 = np.dot(Uf, y1)
Ex6Y2 ==
    /\ op = "d_y1" /\ err = "none"
    /\ LET r == Dot(C, out)
       IN  /\ op' = "d_y2"
           /\ err' = r.err
           /\ out' = IF r.err = "none" THEN r.val ELSE out
    /\ UNCHANGED <<lit, A, B, C, s, ans, eig>>

\* y3 = np.dot(np.kron(I, beamsplitter), y2): the beamsplitter on the
\* second qubit in the place of the first
Ex6Y3SecondQubit ==
    /\ op = "d_y2" /\ err = "none"
    /\ LET r == Dot(Kron(Eye(2), Ex6Beamsplitter), out)
       IN  /\ op' = "d_y3"
           /\ err' = r.err
           /\ out' = IF r.err = "none" THEN r.val ELSE out
    /\ UNCHANGED <<lit, A, B, C, s, ans, eig>>

\* y3 = np.dot(np.kron(beamsplitter, I), y2)
Ex6Y3 ==
    /\ op = "d_y2" /\ err = "none"
    /\ LET r == Dot(Kron(Ex6Beamsplitter, Eye(2)), out)
       IN  /\ op' = "d_y3"
           /\ err' = r.err
           /\ out' = IF r.err = "none" THEN r.val ELSE out
    /\ UNCHANGED <<lit, A, B, C, s, ans, eig>>

\* prob_0, prob_1 before they are divided by total_prob
RawProb0(y3) == CAdd(AbsSq(y3.data[1]), AbsSq(y3.data[2]))
RawProb1(y3) == CAdd(AbsSq(y3.data[3]), AbsSq(y3.data[4]))

\* prob_0, prob_1, total_prob, the two divisions and measured_state;
\* y3[3] of a shorter y3 is an IndexError
Ex6Measure ==
    /\ op = "d_y3" /\ err = "none"
    /\ op' = "measure"
    /\ IF Cells(out) < 4 \/ Rank(out) # 1
       THEN err' = "IndexError" /\ UNCHANGED <<s, out>>
       ELSE LET total_prob == CAdd(RawProb0(out), RawProb1(out))
            IN  /\ err' = "none"
                /\ s' = total_prob
                /\ out' = Vec(<<CDiv(RawProb0(out), total_prob),
                               CDiv(RawProb1(out), total_prob)>>)
    /\ UNCHANGED <<lit, A, B, C, ans, eig>>

\* the if / elif / else that prints the verdict
Ex6Verdict ==
    /\ op = "measure" /\ err = "none"
    /\ op' = "verdict"
    /\ ans' = IF IsClose(out.data[1], One) THEN "The function is constant"
              ELSE IF IsClose(out.data[2], One) THEN "The function is balanced"
              ELSE "Unexpected result"
    /\ UNCHANGED <<lit, A, B, C, s, out, eig, err>>

\* the operands of Exercise 5 (two stages and a state) or of Exercise 6
\* (two input states and an oracle)
InitCircuits ==
    /\ \/ /\ A \in StageMatrices
          /\ B \in StageMatrices
          /\ Draw(C, {<<2>>}, InputScalars)
       \/ /\ A \in QubitStates
          /\ B \in QubitStates
          /\ C \in OracleMatrices
    /\ lit = NoLit /\ s = Zero
    /\ op = "start" /\ out = NoArr
    /\ ans = "unset" /\ eig = NoEig /\ err = "none"

NextCircuits ==
    \/ Ex5Y1
    \/ Ex5Y2
    \/ Ex5Y3
    \/ Ex6Y0
    \/ Ex6Y1
    \/ Ex6Y2
    \/ Ex6Y3
    \/ Ex6Measure
    \/ Ex6Verdict

SpecCircuits == InitCircuits /\ [][NextCircuits]_vars

\* the oracle of f: basis state 2x + y goes to 2x + (y xor f(x))
Oracle(f0, f1) ==
    PermMatrix(<<1 + f0, 2 - f0, 3 + f1, 4 - f1>>)

\* C21: from kron([1, 0], [0, 1]), the stages kron(H, H), Uf and kron(H, I)
\* decide f for each of the four oracles Uf|x, y> = |x, y xor f(x)>:
\* prob_0 = 1 and the verdict is "constant" iff f(0) = f(1), prob_1 = 1 and
\* the verdict is "balanced" iff f(0) # f(1), and "Unexpected result" is
\* never printed; for the cell's Uf (basis states 0 and 1 exchanged)
\* y1 = [0.5, -0.5, 0.5, -0.5], y2 = [-0.5, 0.5, 0.5, -0.5], the
\* probabilities are [0, 1] and the verdict is "balanced".
C21_DeutschDecides ==
    (A = Ex6InputState1 /\ B = Ex6InputState2) =>
        /\ \A f0, f1 \in {0, 1} :
              C = Oracle(f0, f1) =>
                 /\ op \in {"d_y0", "d_y1", "d_y2", "d_y3", "measure", "verdict"} =>
                        err = "none"
                 /\ op \in {"measure", "verdict"} =>
                        /\ out.data[1] = One <=> f0 = f1
                        /\ out.data[2] = One <=> f0 # f1
                        /\ out \in {Vec(<<One, Zero>>), Vec(<<Zero, One>>)}
                 /\ op = "verdict" =>
                        /\ ans = "The function is constant" <=> f0 = f1
                        /\ ans = "The function is balanced" <=> f0 # f1
                        /\ ans # "Unexpected result"
        /\ C = Ex6Uf =>
              /\ C = Oracle(1, 0)
              /\ op = "d_y0" => out = Vec(<<Zero, One, Zero, Zero>>)
              /\ op = "d_y1" => out = Vec(<<Half, CNeg(Half), Half, CNeg(Half)>>)
              /\ op = "d_y2" => out = Vec(<<CNeg(Half), Half, Half, CNeg(Half)>>)
              /\ op = "d_y3" => out = Vec(<<Zero, Zero, CNeg(InvSqrt2), InvSqrt2>>)
              /\ op = "measure" => out = Vec(<<Zero, One>>)
              /\ op = "verdict" => ans = "The function is balanced"

C21_Witness ==
    /\ A = Ex6InputState1 /\ B = Ex6InputState2 /\ C = Ex6Uf
    /\ op = "verdict" /\ err = "none"
    /\ out = Vec(<<Zero, One>>)
    /\ ans = "The function is balanced"

\* the sum of the squared moduli of the entries of x
NormSq(x) == CSum([k \in 1..Cells(x) |-> AbsSq(x.data[k])])

\* p is a real number of [0, 1]
InUnitInterval(p) == NonNegReal(p) /\ NonNegReal(CAdd(One, CNeg(p)))

\* Exercise 5 with unitary stages and an input state of norm 1
UnitaryMachZehnder ==
    /\ Rank(A) = 2 /\ IdentityProduct(A)
    /\ Rank(B) = 2 /\ IdentityProduct(B)
    /\ Rank(C) = 1 /\ NormSq(C) = One

\* Exercise 6 with a unitary oracle and input states of norm 1
UnitaryDeutsch ==
    /\ Rank(A) = 1 /\ NormSq(A) = One
    /\ Rank(B) = 1 /\ NormSq(B) = One
    /\ Rank(C) = 2 /\ IdentityProduct(C)

\* what C22 says of the state a step of the cells ends in, and of the
\* stage the step applies
NormPreservedByStep ==
    /\ (UnitaryMachZehnder /\ op' \in {"y1", "y2", "y3"}) =>
          /\ err' = "none"
          /\ NormSq(out') = One
    /\ (UnitaryDeutsch /\ op' \in {"d_y0", "d_y1", "d_y2", "d_y3"}) =>
          /\ err' = "none"
          /\ NormSq(out') = One
          /\ op' = "d_y1" =>
                /\ IdentityProduct(Ex6Beamsplitter)
                /\ IdentityProduct(Kron(Ex6Beamsplitter, Ex6Beamsplitter))
          /\ op' = "d_y3" => IdentityProduct(Kron(Ex6Beamsplitter, Eye(2)))
    /\ (UnitaryDeutsch /\ op' = "measure") =>
          /\ err' = "none"
          /\ s' = One
          /\ out' = Vec(<<RawProb0(out), RawProb1(out)>>)
          /\ CAdd(out'.data[1], out'.data[2]) = One
          /\ InUnitInterval(out'.data[1]) /\ InUnitInterval(out'.data[2])
    /\ op' \in {"measure", "verdict"} =>
          \A k \in DOMAIN out'.data : out'.data[k] # NotRepresented

\* C22: the norm is preserved at every stage of both circuits: for an input
\* state of norm 1 and unitary stages (H, X, a permutation oracle Uf, and
\* kron(H, H) and kron(H, I), which are unitary), the squared moduli of
\* y0, y1, y2 and y3 sum to 1 at every step; so in the Deutsch cell
\* total_prob = 1, the division by it changes nothing, and
\* prob_0 + prob_1 = 1 with both in [0, 1].
C22_NormPreserved ==
    [][NormPreservedByStep]_vars

\* a superposed input and a unitary oracle give probabilities strictly
\* between 0 and 1, with total_prob = 1
C22_Witness ==
    /\ op = "measure" /\ err = "none"
    /\ UnitaryDeutsch
    /\ A = Vec(<<InvSqrt2, CMul(Cx(0, 1), InvSqrt2)>>)
    /\ s = One
    /\ out.data[1] \notin {Zero, One}
    /\ CAdd(out.data[1], out.data[2]) = One

=============================================================================
